---------------------------- MODULE Spec2Model ----------------------------
(***************************************************************************)
(* A model of the twitch-clip-generator: the moment scorer and window      *)
(* selector of TwitchClipGenerator.find_viral_moments (clip_generator.py), *)
(* the pipeline of TwitchClipGenerator.process_vod, and the job registry   *)
(* and background workers of the web interface (app.py).                   *)
(*                                                                         *)
(* Time.  Every time and duration of the model is a whole number of ticks  *)
(* of half a second.  Transcript segments begin and end on whole seconds   *)
(* (even ticks) and min_duration / max_duration are whole seconds, so the  *)
(* halving in the floor extension, (min_duration - (end - start)) / 2, is  *)
(* exact in ticks, as it is in binary floating point for these values.     *)
(***************************************************************************)
EXTENDS Integers, Sequences, FiniteSets, TLC

VARIABLES
    \* one call of the selector, as process_vod makes it (lines 354-368)
    sel_pc,          \* "called", "selected" (find_viral_moments returned),
                     \* "sliced", "subtitled"
    sel_segments,    \* transcript["segments"]
    sel_min,         \* min_duration, in ticks
    sel_max,         \* max_duration, in ticks
    sel_max_clips,   \* max_clips, read when the clips are sliced
    sel_sorted,      \* its local `moments`, sorted by descending energy_score
    sel_picked,      \* the clips find_viral_moments returned, each with its moment's index
    sel_attempt,     \* clips[:max_clips], the windows the run goes on to render
    sel_srt          \* the caption blocks _create_srt wrote for each of them

VARIABLES
    \* the web interface (app.py) and its background workers
    jobs,            \* the registry `jobs`: job id -> job dict
    thr,             \* job id -> the state of the job's worker thread
    now              \* the wall clock, in seconds

selvars == <<sel_pc, sel_segments, sel_min, sel_max, sel_max_clips, sel_sorted,
             sel_picked, sel_attempt, sel_srt>>

(***************************************************************************)
(* Whole seconds as ticks of half a second.                                *)
(***************************************************************************)
Sec(n) == n * 2

Min2(a, b) == IF a <= b THEN a ELSE b

Max2(a, b) == IF a >= b THEN a ELSE b

(***************************************************************************)
(* Text.  Python strings are TLA+ strings; TLC gives Len, SubSeq and \o on *)
(* them.  str.lower() maps each upper-case letter to its lower-case one.   *)
(***************************************************************************)
UpperChars == "ABCDEFGHIJKLMNOPQRSTUVWXYZ"

LowerChars == "abcdefghijklmnopqrstuvwxyz"

LowerChar(c) ==
    IF \E k \in 1..Len(UpperChars) : SubSeq(UpperChars, k, k) = c
    THEN LET k == CHOOSE k \in 1..Len(UpperChars) : SubSeq(UpperChars, k, k) = c
         IN  SubSeq(LowerChars, k, k)
    ELSE c

RECURSIVE lower(_)
lower(s) ==
    IF Len(s) = 0 THEN ""
    ELSE LowerChar(SubSeq(s, 1, 1)) \o lower(SubSeq(s, 2, Len(s)))

\* word in text: substring test
Contains(text, word) ==
    \E k \in 1..(Len(text) - Len(word) + 1) :
        SubSeq(text, k, k + Len(word) - 1) = word

\* str.strip() for the blanks the model's texts can hold
RECURSIVE strip(_)
strip(s) ==
    IF Len(s) = 0 THEN s
    ELSE IF SubSeq(s, 1, 1) = " " THEN strip(SubSeq(s, 2, Len(s)))
    ELSE IF SubSeq(s, Len(s), Len(s)) = " " THEN strip(SubSeq(s, 1, Len(s) - 1))
    ELSE s

\* " ".join(texts)
RECURSIVE join(_)
join(texts) ==
    IF Len(texts) = 0 THEN ""
    ELSE IF Len(texts) = 1 THEN texts[1]
    ELSE texts[1] \o " " \o join(Tail(texts))

(***************************************************************************)
(* The scorer: Method 1 (high-energy phrases) and Method 2 (speech gaps)   *)
(* of find_viral_moments.                                                  *)
(***************************************************************************)
energy_words ==
    <<"wow", "omg", "insane", "crazy", "no way", "let's go",
      "pog", "holy", "what", "unbelievable", "clutch">>

laugh_words == <<"haha", "lol", "lmao">>

ExclamationWeight == 2

LaughWeight == 1

EnergyThreshold == 2

GapScore == 1

GapMin == Sec(1)

GapMax == Sec(3)

\* energy_score with the exclamation mark counted as one point
energy_score_excl1(rawtext) ==
    LET text == lower(rawtext)
        words == Cardinality({k \in 1..Len(energy_words) : Contains(text, energy_words[k])})
        excl == IF Contains(rawtext, "!") THEN 1 ELSE 0
        laugh == IF \E k \in 1..Len(laugh_words) : Contains(text, laugh_words[k])
                 THEN LaughWeight ELSE 0
    IN  words + excl + laugh

energy_score(rawtext) ==
    LET text == lower(rawtext)
        words == Cardinality({k \in 1..Len(energy_words) : Contains(text, energy_words[k])})
        excl == IF Contains(rawtext, "!") THEN ExclamationWeight ELSE 0
        laugh == IF \E k \in 1..Len(laugh_words) : Contains(text, laugh_words[k])
                 THEN LaughWeight ELSE 0
    IN  words + excl + laugh

\* the moment Method 1 appends for segment seg
EnergyMoment(seg) ==
    [start |-> seg.start, end |-> seg.end, text |-> seg.text,
     energy_score |-> energy_score(seg.text), reason |-> "high_energy"]

RECURSIVE HighEnergyMoments(_, _)
HighEnergyMoments(segments, i) ==
    IF i > Len(segments) THEN <<>>
    ELSE (IF energy_score(segments[i].text) >= EnergyThreshold
          THEN <<EnergyMoment(segments[i])>> ELSE <<>>)
         \o HighEnergyMoments(segments, i + 1)

\* the moment Method 2 appends for the gap after segment i
GapMoment(segments, i) ==
    [start |-> segments[i].end, end |-> segments[i + 1].start,
     text |-> "[reaction moment]", energy_score |-> GapScore,
     reason |-> "reaction_gap"]

IsReactionGap(gap) == GapMin <= gap /\ gap <= GapMax

RECURSIVE GapMoments(_, _)
GapMoments(segments, i) ==
    IF i > Len(segments) - 1 THEN <<>>
    ELSE (IF IsReactionGap(segments[i + 1].start - segments[i].end)
          THEN <<GapMoment(segments, i)>> ELSE <<>>)
         \o GapMoments(segments, i + 1)

Moments(segments) == HighEnergyMoments(segments, 1) \o GapMoments(segments, 1)

(***************************************************************************)
(* The selector: Method 3 of find_viral_moments.                           *)
(***************************************************************************)
HardClipCap == 5

MaxEnergyScore == Len(energy_words) + ExclamationWeight + LaughWeight

\* sorted(moments, key=energy_score, reverse=True): a stable sort, so equal
\* scores keep their detection order
RECURSIVE SortedFrom(_, _)
SortedFrom(moments, score) ==
    IF score < 0 THEN <<>>
    ELSE SelectSeq(moments, LAMBDA m : m.energy_score = score)
         \o SortedFrom(moments, score - 1)

sorted_moments(moments) == SortedFrom(moments, MaxEnergyScore)

\* segments[-1]["end"]
LastSegmentEnd(segments) == segments[Len(segments)].end

\* FloorExtend with the start left where the moment starts
FloorExtendTailOnly(moment, segments, min_duration) ==
    IF moment.end - moment.start < min_duration
    THEN LET extend == (min_duration - (moment.end - moment.start)) \div 2
         IN  [start |-> moment.start,
              end |-> Min2(LastSegmentEnd(segments), moment.end + extend)]
    ELSE [start |-> moment.start, end |-> moment.end]

\* "Extend duration to meet minimum": the window after lines 194-202
FloorExtend(moment, segments, min_duration) ==
    IF moment.end - moment.start < min_duration
    THEN LET extend == (min_duration - (moment.end - moment.start)) \div 2
         IN  [start |-> Max2(0, moment.start - extend),
              end |-> Min2(LastSegmentEnd(segments), moment.end + extend)]
    ELSE [start |-> moment.start, end |-> moment.end]

\* CeilingCap trimming from the head
CeilingCapHead(w, max_duration) ==
    IF w.end - w.start > max_duration
    THEN [start |-> w.end - max_duration, end |-> w.end]
    ELSE w

\* "Cap at max duration": lines 204-206
CeilingCap(w, max_duration) ==
    IF w.end - w.start > max_duration
    THEN [start |-> w.start, end |-> w.start + max_duration]
    ELSE w

Normalize(moment, segments, min_duration, max_duration) ==
    CeilingCap(FloorExtend(moment, segments, min_duration), max_duration)

\* the overlap test with touching windows let through
OverlapsClipOpen(w, clip) == ~(w.end <= clip.start \/ w.start >= clip.end)

\* the overlap test of line 211 against one accepted clip
OverlapsClip(w, clip) == ~(w.end < clip.start \/ w.start > clip.end)

Overlap(w, clips) == \E k \in 1..Len(clips) : OverlapsClip(w, clips[k])

\* the segment lookup of lines 217-220
InWindow(s, w) ==
    (w.start <= s.start /\ s.start <= w.end) \/ (w.start <= s.end /\ s.end <= w.end)

ClipSegments(segments, w) == SelectSeq(segments, LAMBDA s : InWindow(s, w))

SegmentTexts(segs) == [k \in 1..Len(segs) |-> segs[k].text]

\* the dict appended at lines 223-230
MakeClip(w, segments, moment) ==
    [start |-> w.start, end |-> w.end, duration |-> w.end - w.start,
     text |-> strip(join(SegmentTexts(ClipSegments(segments, w)))),
     segments |-> ClipSegments(segments, w),
     reason |-> moment.reason]

\* the loop of lines 190-230 from the i-th sorted moment on; `picked` pairs
\* every accepted clip with the index of the sorted moment it came from
RECURSIVE Greedy(_, _, _, _, _, _)
Greedy(sorted, i, picked, segments, min_duration, max_duration) ==
    IF i > Len(sorted) \/ Len(picked) >= HardClipCap THEN picked
    ELSE LET w == Normalize(sorted[i], segments, min_duration, max_duration)
             clips == [k \in 1..Len(picked) |-> picked[k].clip]
         IN  Greedy(sorted, i + 1,
                    IF Overlap(w, clips) THEN picked
                    ELSE Append(picked, [clip |-> MakeClip(w, segments, sorted[i]),
                                         src |-> i]),
                    segments, min_duration, max_duration)

Selection(segments, min_duration, max_duration) ==
    IF Len(segments) = 0 THEN <<>>
    ELSE Greedy(sorted_moments(Moments(segments)), 1, <<>>,
                segments, min_duration, max_duration)

find_viral_moments(segments, min_duration, max_duration) ==
    LET picked == Selection(segments, min_duration, max_duration)
    IN  [k \in 1..Len(picked) |-> picked[k].clip]

\* clips[:max_clips], Python slicing: a negative bound counts from the end
Slice(clips, max_clips) ==
    IF max_clips >= 0 THEN SubSeq(clips, 1, Min2(max_clips, Len(clips)))
    ELSE SubSeq(clips, 1, Max2(0, Len(clips) + max_clips))

(***************************************************************************)
(* The subtitle track: _create_srt and _format_time.                       *)
(***************************************************************************)
\* _format_time: the fields of HH:MM:SS,mmm for a time in ticks; a timedelta
\* keeps its days apart, so the hours are those within the day
format_time(ticks) ==
    LET td_seconds == (ticks \div 2) % 86400
        remainder == td_seconds % 3600
    IN  [hours |-> td_seconds \div 3600,
         minutes |-> remainder \div 60,
         seconds |-> remainder % 60,
         milliseconds |-> (ticks % 2) * 500]

\* the loop of lines 298-308 from the i-th segment on: the blocks written,
\* each with the number written on its first line
RECURSIVE SrtBlocks(_, _, _)
SrtBlocks(segments, offset, i) ==
    IF i > Len(segments) THEN <<>>
    ELSE LET start == segments[i].start - offset
             end == segments[i].end - offset
             text == strip(segments[i].text)
         IN  (IF start < 0 \/ Len(text) = 0 THEN <<>>
              ELSE <<[number |-> i, start |-> format_time(start),
                      end |-> format_time(end), text |-> text]>>)
             \o SrtBlocks(segments, offset, i + 1)

\* _create_srt(segments, output_path, offset): enumerate(segments, 1)
create_srt(segments, offset) == SrtBlocks(segments, offset, 1)

(***************************************************************************)
(* The selector's inputs.  Transcripts are the sequences of at most        *)
(* MaxSegs segments of SegmentPool, in any order (so unordered and         *)
(* overlapping transcripts are among them), and the evenly spaced          *)
(* transcripts of at most MaxLong segments.                                *)
(***************************************************************************)
MaxSegs == 3

MaxLong == 6

Seg(a, b, t) == [start |-> Sec(a), end |-> Sec(b), text |-> t]

SegmentPool ==
    { Seg(0, 2, "what!"),
      Seg(2, 4, "No way!"),
      Seg(4, 6, "wow omg"),
      Seg(7, 9, "hello"),
      Seg(10, 12, "holy that was insane!"),
      Seg(12, 40, "LOL haha!") }

PoolTranscripts == UNION { [1..n -> SegmentPool] : n \in 0..MaxSegs }

LongTexts == {"what!", "wow omg"}

LongTranscripts ==
    UNION { { [k \in 1..n |-> Seg(4 * (k - 1), 4 * (k - 1) + 2, f[k])] :
              f \in [1..n -> LongTexts] } : n \in 0..MaxLong }

SelTranscripts == PoolTranscripts \cup LongTranscripts

\* (min_duration, max_duration) in seconds; the second is the defaults
SelDurations == { <<2, 60>>, <<15, 60>>, <<6, 20>>, <<4, 3>> }

DefaultMaxClips == 5

SelMaxClips == (0 - 1)..(HardClipCap + 2)

SelInit ==
    /\ jobs = <<>>
    /\ thr = <<>>
    /\ now = 0
    /\ sel_pc = "called"
    /\ sel_segments \in SelTranscripts
    /\ \E d \in SelDurations : sel_min = Sec(d[1]) /\ sel_max = Sec(d[2])
    /\ sel_max_clips = DefaultMaxClips
    /\ sel_sorted = <<>>
    /\ sel_picked = <<>>
    /\ sel_attempt = <<>>
    /\ sel_srt = <<>>

\* clips = self.find_viral_moments(transcript, min_duration, max_duration)
SelFind ==
    /\ sel_pc = "called"
    /\ sel_sorted' = sorted_moments(Moments(sel_segments))
    /\ sel_picked' = Selection(sel_segments, sel_min, sel_max)
    /\ sel_pc' = "selected"
    /\ UNCHANGED <<sel_segments, sel_min, sel_max, sel_max_clips, sel_attempt, sel_srt>>
    /\ UNCHANGED <<jobs, thr, now>>

\* for i, clip in enumerate(clips[:max_clips], 1), for the caller's max_clips
SelSlice(max_clips) ==
    /\ sel_pc = "selected"
    /\ sel_max_clips' = max_clips
    /\ sel_attempt' = Slice([k \in 1..Len(sel_picked) |-> sel_picked[k].clip], max_clips)
    /\ sel_pc' = "sliced"
    /\ UNCHANGED <<sel_segments, sel_min, sel_max, sel_sorted, sel_picked, sel_srt>>
    /\ UNCHANGED <<jobs, thr, now>>

\* the render loop's calls of create_vertical_video (lines 371-378), each
\* writing the subtitle track of its clip: _create_srt(clip["segments"],
\* subtitle_path, clip["start"]) at line 247
SelSubtitles ==
    /\ sel_pc = "sliced"
    /\ sel_srt' = [k \in 1..Len(sel_attempt) |->
                      create_srt(sel_attempt[k].segments, sel_attempt[k].start)]
    /\ sel_pc' = "subtitled"
    /\ UNCHANGED <<sel_segments, sel_min, sel_max, sel_max_clips, sel_sorted,
                   sel_picked, sel_attempt>>
    /\ UNCHANGED <<jobs, thr, now>>

SelNext ==
    \/ SelFind
    \/ \E max_clips \in SelMaxClips : SelSlice(max_clips)
    \/ SelSubtitles


(***************************************************************************)
(* The web interface.  A job id is a uuid4: the model hands out 1, 2, ...  *)
(* The registry holds the job dicts (without created_at, which nothing     *)
(* reads); thr holds each worker thread's position and locals.             *)
(***************************************************************************)
MaxJobs == 2

\* the jobs of RunSpec, the specification of the claims about a single run
MaxRuns == 1

MaxTime == 1

\* Python's None, for the error field
None == "<None>"

\* the urls a client may post to /api/process
RequestUrls ==
    { "", "   ", "https://example.com/v.mp4", "https://youtu.be/abc",
      " https://www.twitch.tv/videos/123 " }

\* the file names a client may post to /api/upload; NoFile: no 'video' part
NoFile == "<no file>"

RequestFiles == { NoFile, "", "vod.mp4" }

\* min_duration, max_duration (seconds) and max_clips as the client sends
\* them; `bad` names the ones that are not numbers
Options(min_d, max_d, max_c, bad) ==
    [min_duration |-> Sec(min_d), max_duration |-> Sec(max_d),
     max_clips |-> max_c, bad |-> bad]

RequestOptions ==
    { Options(15, 60, 5, {}),
      Options(2, 60, 5, {}),
      Options(15, 60, 5, {"min_duration"}),
      Options(15, 60, 5, {"max_clips"}) }

\* what the transcriber may return as transcript["segments"]
JobTranscripts ==
    { <<>>,
      <<Seg(7, 9, "hello")>>,
      <<Seg(0, 2, "what!"), Seg(4, 6, "wow omg")>> }

\* line 53: 'twitch.tv' not in vod_url and 'youtube.com' not in vod_url
UrlSupported(vod_url) == Contains(vod_url, "twitch.tv") \/ Contains(vod_url, "youtube.com")

\* lines 58-66 and 101-109: the job dict a route stores
NewJob(job_id, source) ==
    [id |-> job_id, status |-> "queued", progress |-> 0, source |-> source,
     clips |-> <<>>, error |-> None]

\* the worker thread a route starts: target process_job or process_upload_job
NewThread(kind, options, tmp) ==
    [kind |-> kind, pc |-> "start", options |-> options,
     tmp |-> tmp,               \* the temporary working files that exist
     long |-> FALSE,            \* duration > 1800, from the probe until the
                                \* transcriber is called (not read afterwards)
     input |-> "none",          \* what the transcriber is given: "full" or "sample"
     transcript |-> <<>>,       \* transcript["segments"]
     clips |-> <<>>,            \* clips / clips_info
     windows |-> <<>>,          \* clips[:max_clips]
     timestamp |-> 0,           \* datetime.now() of line 366 / 241, in seconds
     i |-> 1,                   \* the loop index of the render loop
     output_files |-> <<>>,
     exc |-> None,              \* str(e) of the exception being handled
     attempts |-> <<>>,         \* the render calls made: [i, ok]
     metadata |-> <<>>]         \* the metadata sidecars written: [i, content]

JobIds == DOMAIN jobs

NextJobId == Cardinality(JobIds) + 1

Init ==
    /\ jobs = <<>>
    /\ thr = <<>>
    /\ now = 0
    /\ sel_pc = "idle"
    /\ sel_segments = <<>>
    /\ sel_min = 0
    /\ sel_max = 0
    /\ sel_max_clips = DefaultMaxClips
    /\ sel_sorted = <<>>
    /\ sel_picked = <<>>
    /\ sel_attempt = <<>>
    /\ sel_srt = <<>>

\* the clock advances
Tick ==
    /\ now < MaxTime
    /\ now' = now + 1
    /\ UNCHANGED <<jobs, thr, selvars>>

\* POST /api/process (lines 43-80); the model admits `limit` jobs
SubmitUrl(limit, url, options) ==
    LET vod_url == strip(url)
    IN  /\ NextJobId <= limit
        /\ IF Len(vod_url) = 0 \/ ~UrlSupported(vod_url)
           THEN UNCHANGED <<jobs, thr>>          \* 400, nothing stored
           ELSE /\ jobs' = Append(jobs, NewJob(NextJobId, vod_url))
                /\ thr' = Append(thr, NewThread("url", options, {}))
        /\ UNCHANGED <<now, selvars>>

\* POST /api/upload (lines 83-123): the file is saved, then the job is stored
SubmitUpload(limit, filename, options) ==
    /\ NextJobId <= limit
    /\ IF filename = NoFile \/ filename = ""
       THEN UNCHANGED <<jobs, thr>>              \* 400, nothing stored
       ELSE /\ jobs' = Append(jobs, NewJob(NextJobId, filename))
            /\ thr' = Append(thr, NewThread("upload", options, {"source"}))
    /\ UNCHANGED <<now, selvars>>

At(j, kind, pc) == j \in JobIds /\ thr[j].kind = kind /\ thr[j].pc = pc

\* an exception leaves process_vod: the TemporaryDirectory is removed on the
\* way out and process_job's handler runs next
UrlRaise(j, message) ==
    [thr EXCEPT ![j].pc = "handler", ![j].exc = message, ![j].tmp = {}]

\* process_vod returns `result`: the TemporaryDirectory is removed
UrlReturn(j, result) ==
    [thr EXCEPT ![j].pc = "returned", ![j].output_files = result, ![j].tmp = {}]

\* process_job, lines 183-184
UrlStart(j) ==
    /\ At(j, "url", "start")
    /\ jobs' = [jobs EXCEPT ![j].status = "downloading", ![j].progress = 10]
    /\ thr' = [thr EXCEPT ![j].pc = "download"]
    /\ UNCHANGED <<now, selvars>>

\* process_vod, lines 330-332: download_vod returns True or False
UrlDownload(j, ok) ==
    /\ At(j, "url", "download")
    /\ thr' = IF ok THEN [thr EXCEPT ![j].pc = "probe", ![j].tmp = {"source"}]
              ELSE UrlReturn(j, <<>>)
    /\ UNCHANGED <<jobs, now, selvars>>

\* process_vod, lines 335-347: the duration probe and, for a long video, the
\* head sample; is_long: duration > 1800, sampled: _extract_sample succeeded
UrlProbe(j, is_long, sampled) ==
    /\ At(j, "url", "probe")
    /\ thr' = IF is_long /\ sampled
              THEN [thr EXCEPT ![j].pc = "transcribe", ![j].long = is_long,
                               ![j].input = "sample", ![j].tmp = @ \cup {"sample"}]
              ELSE [thr EXCEPT ![j].pc = "transcribe", ![j].long = is_long,
                               ![j].input = "full"]
    /\ UNCHANGED <<jobs, now, selvars>>

\* transcribe_audio (lines 93-129): the audio is extracted and transcribed;
\* when the transcriber raises, the audio file stays and no segments come back
TranscribeResult(t, ok, segments) ==
    IF ok THEN [t EXCEPT !.transcript = segments]
    ELSE [t EXCEPT !.transcript = <<>>, !.tmp = @ \cup {"audio"}]

\* process_vod, lines 343-351
UrlTranscribe(j, ok, segments) ==
    /\ At(j, "url", "transcribe")
    /\ LET t == TranscribeResult([thr[j] EXCEPT !.long = FALSE], ok, segments)
       IN  thr' = IF Len(t.transcript) = 0
                  THEN [thr EXCEPT ![j] = [t EXCEPT !.pc = "returned", !.tmp = {}]]
                  ELSE [thr EXCEPT ![j] = [t EXCEPT !.pc = "find"]]
    /\ UNCHANGED <<jobs, now, selvars>>

\* find_viral_moments compares and subtracts min_duration and max_duration
\* for every moment (lines 198-206): a TypeError when one is not a number
FindRaises(segments, options) ==
    /\ Len(Moments(segments)) > 0
    /\ options.bad \cap {"min_duration", "max_duration"} # {}

\* process_vod, lines 354-362
UrlFind(j) ==
    /\ At(j, "url", "find")
    /\ LET o == thr[j].options
           clips == find_viral_moments(thr[j].transcript, o.min_duration, o.max_duration)
       IN  thr' = IF FindRaises(thr[j].transcript, o)
                  THEN UrlRaise(j, "'<' not supported between instances of 'float' and 'str'")
                  ELSE IF Len(clips) = 0 THEN UrlReturn(j, <<>>)
                  ELSE [thr EXCEPT ![j].pc = "slice", ![j].clips = clips]
    /\ UNCHANGED <<jobs, now, selvars>>

\* process_vod, lines 365-368: the timestamp, then clips[:max_clips]
UrlSlice(j) ==
    /\ At(j, "url", "slice")
    /\ LET o == thr[j].options
       IN  thr' = IF "max_clips" \in o.bad
                  THEN UrlRaise(j, "slice indices must be integers or None or have an __index__ method")
                  ELSE [thr EXCEPT ![j].pc = "render", ![j].timestamp = now,
                                   ![j].windows = Slice(thr[j].clips, o.max_clips)]
    /\ UNCHANGED <<jobs, now, selvars>>

\* line 369: self.output_dir / f"clip_{timestamp}_{i}.mp4"
UrlOutputPath(timestamp, i) == [keyed_by |-> "timestamp", key |-> timestamp, i |-> i]

\* lines 384-393: the sidecar of the i-th clip, at output_path with suffix
\* .json, and the dict json.dump writes into it
Sidecar(vod_url, i, clip) ==
    [i |-> i,
     content |-> [source |-> vod_url, start_time |-> clip.start,
                  end_time |-> clip.end, duration |-> clip.duration,
                  transcript |-> clip.text, reason |-> clip.reason]]

\* UrlRender leaving the loop at the first failed render
UrlRenderStopsAtFailure(j, ok) ==
    /\ At(j, "url", "render")
    /\ thr[j].i <= Len(thr[j].windows)
    /\ LET i == thr[j].i
           path == UrlOutputPath(thr[j].timestamp, i)
       IN  thr' = [thr EXCEPT
               ![j].i = IF ok THEN i + 1 ELSE Len(thr[j].windows) + 1,
               ![j].attempts = Append(@, [i |-> i, ok |-> ok]),
               ![j].output_files = IF ok THEN Append(@, path) ELSE @,
               ![j].metadata = IF ok THEN Append(@, Sidecar(jobs[j].source, i,
                                                            thr[j].windows[i]))
                               ELSE @]
    /\ UNCHANGED <<jobs, now, selvars>>

\* process_vod, lines 368-393: one pass of the render loop; ok: the renderer
\* exited with 0, otherwise create_vertical_video caught CalledProcessError
UrlRender(j, ok) ==
    /\ At(j, "url", "render")
    /\ thr[j].i <= Len(thr[j].windows)
    /\ LET i == thr[j].i
           path == UrlOutputPath(thr[j].timestamp, i)
       IN  thr' = [thr EXCEPT
               ![j].i = i + 1,
               ![j].attempts = Append(@, [i |-> i, ok |-> ok]),
               ![j].output_files = IF ok THEN Append(@, path) ELSE @,
               ![j].metadata = IF ok THEN Append(@, Sidecar(jobs[j].source, i,
                                                            thr[j].windows[i]))
                               ELSE @]
    /\ UNCHANGED <<jobs, now, selvars>>

\* process_vod, line 395: return output_files
UrlLoopEnd(j) ==
    /\ At(j, "url", "render")
    /\ thr[j].i > Len(thr[j].windows)
    /\ thr' = UrlReturn(j, thr[j].output_files)
    /\ UNCHANGED <<jobs, now, selvars>>

\* process_job, lines 196-202
UrlFinish(j) ==
    /\ At(j, "url", "returned")
    /\ jobs' = IF Len(thr[j].output_files) > 0
               THEN [jobs EXCEPT ![j].clips = thr[j].output_files,
                                 ![j].status = "completed", ![j].progress = 100]
               ELSE [jobs EXCEPT ![j].status = "failed",
                                 ![j].error = "No clips generated"]
    /\ thr' = [thr EXCEPT ![j].pc = "done"]
    /\ UNCHANGED <<now, selvars>>

\* process_job, lines 204-206
UrlHandler(j) ==
    /\ At(j, "url", "handler")
    /\ jobs' = [jobs EXCEPT ![j].status = "failed", ![j].error = thr[j].exc]
    /\ thr' = [thr EXCEPT ![j].pc = "done"]
    /\ UNCHANGED <<now, selvars>>

\* an exception leaves the try block of process_upload_job
UploadRaise(j, message) == [thr EXCEPT ![j].pc = "handler", ![j].exc = message]

\* process_upload_job, lines 212-213
UploadStart(j) ==
    /\ At(j, "upload", "start")
    /\ jobs' = [jobs EXCEPT ![j].status = "processing", ![j].progress = 20]
    /\ thr' = [thr EXCEPT ![j].pc = "probe"]
    /\ UNCHANGED <<now, selvars>>

\* process_upload_job, lines 219-223: the duration is read and not used, the
\* transcriber is given the uploaded file; is_long: duration > 1800
UploadProbe(j, is_long) ==
    /\ At(j, "upload", "probe")
    /\ jobs' = [jobs EXCEPT ![j].progress = 30]
    /\ thr' = [thr EXCEPT ![j].pc = "transcribe", ![j].long = is_long,
                          ![j].input = "full"]
    /\ UNCHANGED <<now, selvars>>

\* process_upload_job, lines 223-229
UploadTranscribe(j, ok, segments) ==
    /\ At(j, "upload", "transcribe")
    /\ LET t == TranscribeResult([thr[j] EXCEPT !.long = FALSE], ok, segments)
       IN  IF Len(t.transcript) = 0
           THEN /\ jobs' = [jobs EXCEPT ![j].progress = 60, ![j].status = "failed",
                                        ![j].error = "No audio/transcription available"]
                /\ thr' = [thr EXCEPT ![j] = [t EXCEPT !.pc = "done"]]
           ELSE /\ jobs' = [jobs EXCEPT ![j].progress = 60]
                /\ thr' = [thr EXCEPT ![j] = [t EXCEPT !.pc = "find"]]
    /\ UNCHANGED <<now, selvars>>

\* process_upload_job, lines 232-237: int() of min_duration and max_duration
\* raises ValueError for a value that is not a number
UploadFind(j) ==
    /\ At(j, "upload", "find")
    /\ LET o == thr[j].options
       IN  IF o.bad \cap {"min_duration", "max_duration"} # {}
           THEN /\ thr' = UploadRaise(j, "invalid literal for int() with base 10")
                /\ UNCHANGED jobs
           ELSE /\ thr' = [thr EXCEPT ![j].pc = "slice",
                               ![j].clips = find_viral_moments(thr[j].transcript,
                                                o.min_duration, o.max_duration)]
                /\ jobs' = [jobs EXCEPT ![j].progress = 80]
    /\ UNCHANGED <<now, selvars>>

\* process_upload_job, lines 240-243: the timestamp, then
\* clips_info[:int(max_clips)]
UploadSlice(j) ==
    /\ At(j, "upload", "slice")
    /\ LET o == thr[j].options
       IN  thr' = IF "max_clips" \in o.bad
                  THEN UploadRaise(j, "invalid literal for int() with base 10")
                  ELSE [thr EXCEPT ![j].pc = "render", ![j].timestamp = now,
                                   ![j].windows = Slice(thr[j].clips, o.max_clips)]
    /\ UNCHANGED <<jobs, now, selvars>>

\* lines 244-247: os.path.join(CLIP_FOLDER, f"clip_{job_id}_{i}.mp4")
UploadOutputPath(job_id, i) == [keyed_by |-> "job_id", key |-> job_id, i |-> i]

\* process_upload_job, lines 243-259: one pass of the render loop; no
\* metadata is written
UploadRender(j, ok) ==
    /\ At(j, "upload", "render")
    /\ thr[j].i <= Len(thr[j].windows)
    /\ LET i == thr[j].i
           path == UploadOutputPath(jobs[j].id, i)
       IN  thr' = [thr EXCEPT
               ![j].i = i + 1,
               ![j].attempts = Append(@, [i |-> i, ok |-> ok]),
               ![j].output_files = IF ok THEN Append(@, path) ELSE @]
    /\ UNCHANGED <<jobs, now, selvars>>

\* process_upload_job, lines 261-263
UploadFinish(j) ==
    /\ At(j, "upload", "render")
    /\ thr[j].i > Len(thr[j].windows)
    /\ jobs' = [jobs EXCEPT
           ![j].clips = thr[j].output_files,
           ![j].status = IF Len(thr[j].output_files) > 0 THEN "completed" ELSE "failed",
           ![j].progress = 100]
    /\ thr' = [thr EXCEPT ![j].pc = "cleanup"]
    /\ UNCHANGED <<now, selvars>>

\* process_upload_job, lines 266-267: os.remove(filepath) inside the try
\* block; removed: os.remove returned, otherwise it raised OSError
UploadCleanup(j, removed) ==
    /\ At(j, "upload", "cleanup")
    /\ thr' = IF "source" \notin thr[j].tmp THEN [thr EXCEPT ![j].pc = "done"]
              ELSE IF removed
              THEN [thr EXCEPT ![j].pc = "done", ![j].tmp = @ \ {"source"}]
              ELSE UploadRaise(j, "[Errno 13] Permission denied")
    /\ UNCHANGED <<jobs, now, selvars>>

\* process_upload_job, lines 269-274: the handler, with its own os.remove
UploadHandler(j, removed) ==
    /\ At(j, "upload", "handler")
    /\ jobs' = [jobs EXCEPT ![j].status = "failed", ![j].error = thr[j].exc]
    /\ thr' = [thr EXCEPT ![j].pc = "done",
                          ![j].tmp = IF removed THEN @ \ {"source"} ELSE @]
    /\ UNCHANGED <<now, selvars>>

UrlStep(j) ==
    \/ UrlStart(j)
    \/ \E ok \in BOOLEAN : UrlDownload(j, ok)
    \/ \E is_long, sampled \in BOOLEAN : UrlProbe(j, is_long, sampled)
    \/ \E ok \in BOOLEAN, segments \in JobTranscripts : UrlTranscribe(j, ok, segments)
    \/ UrlFind(j)
    \/ UrlSlice(j)
    \/ \E ok \in BOOLEAN : UrlRender(j, ok)
    \/ UrlLoopEnd(j)
    \/ UrlFinish(j)
    \/ UrlHandler(j)

UploadStep(j) ==
    \/ UploadStart(j)
    \/ \E is_long \in BOOLEAN : UploadProbe(j, is_long)
    \/ \E ok \in BOOLEAN, segments \in JobTranscripts : UploadTranscribe(j, ok, segments)
    \/ UploadFind(j)
    \/ UploadSlice(j)
    \/ \E ok \in BOOLEAN : UploadRender(j, ok)
    \/ UploadFinish(j)
    \/ \E removed \in BOOLEAN : UploadCleanup(j, removed)
    \/ \E removed \in BOOLEAN : UploadHandler(j, removed)

\* the steps of the service with at most `limit` jobs
JobsNext(limit) ==
    \/ Tick
    \/ \E url \in RequestUrls, options \in RequestOptions : SubmitUrl(limit, url, options)
    \/ \E filename \in RequestFiles, options \in RequestOptions :
          SubmitUpload(limit, filename, options)
    \/ \E j \in 1..limit : UrlStep(j)
    \/ \E j \in 1..limit : UploadStep(j)

Next == JobsNext(MaxJobs)

RunNext == JobsNext(MaxRuns)

vars == <<jobs, thr, now, selvars>>

\* the service with MaxJobs concurrent jobs
Spec == Init /\ [][Next]_vars

\* the service with MaxRuns jobs
RunSpec == Init /\ [][RunNext]_vars

SelSpec == SelInit /\ [][SelNext]_vars

(***************************************************************************)
(* Claims about the selector, checked under SelSpec.                       *)
(***************************************************************************)
SelClips == [k \in 1..Len(sel_picked) |-> sel_picked[k].clip]

\* the moment the k-th returned clip was made from
SelMoment(k) == sel_sorted[sel_picked[k].src]

SelReturned == sel_pc \in {"selected", "sliced", "subtitled"}

\* C1: the list find_viral_moments returns never holds two distinct windows
\* that overlap or touch: of every pair, one ends strictly before the other
\* starts.
C1_NoTwoWindowsOverlapOrTouch ==
    SelReturned =>
        \A i, j \in 1..Len(SelClips) :
            i # j => (SelClips[i].end < SelClips[j].start
                      \/ SelClips[j].end < SelClips[i].start)

\* C1 witness: two windows were returned and a candidate that only touches
\* an accepted window (its start is that window's end, it intersects none in
\* more than a point) was left out.
C1_TouchingCandidateDropped ==
    /\ sel_pc = "selected"
    /\ Len(SelClips) >= 2
    /\ \E m \in 1..Len(sel_sorted) :
          LET w == Normalize(sel_sorted[m], sel_segments, sel_min, sel_max)
          IN  /\ \A k \in 1..Len(sel_picked) : sel_picked[k].src # m
              /\ w.start < w.end
              /\ \E k \in 1..Len(SelClips) : SelClips[k].end = w.start
              /\ \A k \in 1..Len(SelClips) :
                    w.end <= SelClips[k].start \/ SelClips[k].end <= w.start

\* the greedy selection with no limit on the number of accepted windows
RECURSIVE UncappedGreedy(_, _, _, _, _, _)
UncappedGreedy(sorted, i, clips, segments, min_duration, max_duration) ==
    IF i > Len(sorted) THEN clips
    ELSE LET w == Normalize(sorted[i], segments, min_duration, max_duration)
         IN  UncappedGreedy(sorted, i + 1,
                            IF Overlap(w, clips) THEN clips
                            ELSE Append(clips, MakeClip(w, segments, sorted[i])),
                            segments, min_duration, max_duration)

SelUncapped ==
    IF Len(sel_segments) = 0 THEN <<>>
    ELSE UncappedGreedy(sel_sorted, 1, <<>>, sel_segments, sel_min, sel_max)

\* C2 (as claimed): for max_clips >= 0 the windows the run goes on to render
\* are the first max_clips windows of the greedy selection that is limited
\* only by max_clips, so there are at most max_clips of them and at most as
\* many as moments.
C2_AttemptIsPrefixOfUncapped ==
    (sel_pc = "sliced" /\ sel_max_clips >= 0) =>
        /\ sel_attempt = SubSeq(SelUncapped, 1, Min2(sel_max_clips, Len(SelUncapped)))
        /\ Len(sel_attempt) <= sel_max_clips
        /\ Len(sel_attempt) <= Len(sel_sorted)

\* the floor extension of moment m was not clamped at 0 or at the end of
\* the last segment
Unclamped(m) ==
    \/ m.end - m.start >= sel_min
    \/ LET extend == (sel_min - (m.end - m.start)) \div 2
       IN  m.start - extend >= 0 /\ m.end + extend <= LastSegmentEnd(sel_segments)

\* C3: for min_duration <= max_duration every returned window whose floor
\* extension was not clamped at 0 or at the last segment's end lasts at least
\* min_duration; a shorter window had one of the two clamps take effect.
C3_UnclampedWindowMeetsMinimum ==
    (SelReturned /\ sel_min <= sel_max) =>
        \A k \in 1..Len(SelClips) :
            Unclamped(SelMoment(k)) => SelClips[k].duration >= sel_min

\* C3 witness: one returned window was extended, unclamped, to min_duration
\* and another, clamped, stayed shorter.
C3_ExtendedAndClampedWindows ==
    /\ sel_pc = "selected"
    /\ sel_min <= sel_max
    /\ \E k \in 1..Len(SelClips) :
          /\ SelMoment(k).end - SelMoment(k).start < sel_min
          /\ Unclamped(SelMoment(k))
          /\ SelClips[k].duration = sel_min
    /\ \E k \in 1..Len(SelClips) :
          ~Unclamped(SelMoment(k)) /\ SelClips[k].duration < sel_min

\* C4: every returned window has duration = end - start <= max_duration, and
\* the ceiling moves only the end: the start is the floor-extended start and
\* a candidate longer than max_duration ends at start + max_duration.
C4_CeilingHoldsAndTrimsTail ==
    SelReturned =>
        \A k \in 1..Len(SelClips) :
            LET f == FloorExtend(SelMoment(k), sel_segments, sel_min)
            IN  /\ SelClips[k].duration = SelClips[k].end - SelClips[k].start
                /\ SelClips[k].duration <= sel_max
                /\ SelClips[k].start = f.start
                /\ (f.end - f.start > sel_max => SelClips[k].end = f.start + sel_max)

\* C4 witness: a returned window whose candidate was longer than max_duration.
C4_TruncatedWindowReturned ==
    /\ sel_pc = "selected"
    /\ \E k \in 1..Len(SelClips) :
          LET f == FloorExtend(SelMoment(k), sel_segments, sel_min)
          IN  f.end - f.start > sel_max /\ SelClips[k].duration = sel_max

Scenario1 == <<Seg(10, 12, "holy that was insane!")>>

IsScenario1 ==
    /\ sel_pc = "selected"
    /\ sel_segments = Scenario1
    /\ sel_min = Sec(15)
    /\ sel_max = Sec(60)

\* C5 (as claimed): in scenario 1 the segment scores 3, one high_energy
\* moment is emitted, and the one window returned is 15 s long and spans
\* [8.5, 15.5].
C5_ScenarioScores3AndSpans8To15 ==
    IsScenario1 =>
        /\ sel_sorted[1].energy_score = 3
        /\ Len(sel_sorted) = 1 /\ sel_sorted[1].reason = "high_energy"
        /\ Len(SelClips) = 1
        /\ SelClips[1].start = Sec(8) + 1
        /\ SelClips[1].end = Sec(15) + 1
        /\ SelClips[1].duration = Sec(15)

\* C5 (amended): in scenario 1 the segment scores 4 ("holy", "insane" and
\* the exclamation mark), one high_energy moment is emitted, and the one
\* window returned has its end clamped at the transcript end: it spans
\* [3.5, 12] and is 8.5 s long.
C5_ScenarioScores4AndSpans3To12 ==
    IsScenario1 =>
        /\ sel_sorted[1].energy_score = 4
        /\ Len(sel_sorted) = 1 /\ sel_sorted[1].reason = "high_energy"
        /\ Len(SelClips) = 1
        /\ SelClips[1].start = Sec(3) + 1
        /\ SelClips[1].end = Sec(12)
        /\ SelClips[1].duration = Sec(8) + 1

\* C5 witness: scenario 1 has been run through the selector.
C5_ScenarioSelected == IsScenario1 /\ Len(SelClips) = 1

\* the segments of a clip that are to be captioned: re-based start >= 0 and
\* trimmed text not empty
Captioned(clip) ==
    SelectSeq(clip.segments,
              LAMBDA seg : seg.start - clip.start >= 0 /\ Len(strip(seg.text)) > 0)

\* C14 (as claimed): for every window, _create_srt writes one caption block
\* for exactly the segments whose re-based start is >= 0 and whose trimmed
\* text is not empty, in order, and numbers the written blocks 1, 2, ..., k
\* with no gaps.
C14_CaptionBlocksNumberedWithoutGaps ==
    sel_pc = "subtitled" =>
        \A c \in 1..Len(sel_srt) :
            LET blocks == sel_srt[c]
                segs == Captioned(sel_attempt[c])
            IN  /\ Len(blocks) = Len(segs)
                /\ \A b \in 1..Len(blocks) :
                      /\ blocks[b].text = strip(segs[b].text)
                      /\ blocks[b].start = format_time(segs[b].start - sel_attempt[c].start)
                      /\ blocks[b].end = format_time(segs[b].end - sel_attempt[c].start)
                      /\ blocks[b].number = b

\* C15 (as claimed): every segment of the transcript having start <= end,
\* every window find_viral_moments returns has start <= end and a duration
\* >= 0, for unordered and overlapping transcripts too.
C15_ReturnedWindowsRunForward ==
    (SelReturned /\ \A k \in 1..Len(sel_segments) :
                        sel_segments[k].start <= sel_segments[k].end) =>
        \A k \in 1..Len(SelClips) :
            SelClips[k].start <= SelClips[k].end /\ SelClips[k].duration >= 0

(***************************************************************************)
(* Claims about the jobs, under RunSpec (one run) and Spec (concurrency).  *)
(***************************************************************************)
\* the output path of job j's i-th window
JobOutputPath(j, i) ==
    IF thr[j].kind = "url" THEN UrlOutputPath(thr[j].timestamp, i)
    ELSE UploadOutputPath(jobs[j].id, i)

\* the output paths of the windows of job j whose render succeeded, in the
\* order the renders were made
Rendered(j) ==
    LET oks == SelectSeq(thr[j].attempts, LAMBDA a : a.ok)
    IN  [k \in 1..Len(oks) |-> JobOutputPath(j, oks[k].i)]

TerminalStatus(j) == jobs[j].status \in {"completed", "failed"}

\* C6 (as claimed): a job in a terminal state is 'failed' exactly when no
\* clip of its run rendered successfully; when one did, it is 'completed'
\* and its clips list holds exactly the successfully rendered output paths.
C6_FailedIffNothingRendered ==
    \A j \in JobIds :
        TerminalStatus(j) =>
            /\ (jobs[j].status = "failed" <=> Len(Rendered(j)) = 0)
            /\ (Len(Rendered(j)) > 0 =>
                    jobs[j].status = "completed" /\ jobs[j].clips = Rendered(j))

\* C7 (as claimed): a job whose status is 'failed' carries a reason: its
\* error field is not None.
C7_FailedJobHasError ==
    \A j \in JobIds : jobs[j].status = "failed" => jobs[j].error # None

\* the worker of job j has left the render loop
PastRenderLoop(j) == Len(thr[j].windows) > 0 /\ thr[j].pc # "render"

\* C8: a failed render (the renderer's error exit) stops nothing: the
\* selected windows are attempted once each, in order, with no retry, every
\* one of them has been attempted when the loop is left, and the clip list a
\* job ends with holds exactly the paths of the windows whose render
\* succeeded, in selection order.
C8_RenderFailureIsIsolated ==
    \A j \in JobIds :
        /\ \A k \in 1..Len(thr[j].attempts) : thr[j].attempts[k].i = k
        /\ PastRenderLoop(j) => Len(thr[j].attempts) = Len(thr[j].windows)
        /\ TerminalStatus(j) => jobs[j].clips = Rendered(j)

\* C8 witness: a job ended with its first render failed, its second window
\* attempted all the same and rendered, and only the second in its clips.
C8_LaterWindowRenderedAfterFailure ==
    \E j \in JobIds :
        /\ thr[j].pc = "done"
        /\ Len(thr[j].attempts) = 2
        /\ ~thr[j].attempts[1].ok /\ thr[j].attempts[2].ok
        /\ jobs[j].status = "completed"
        /\ jobs[j].clips = <<JobOutputPath(j, 2)>>

\* the worker of job j has begun its download or transcription
WorkBegun(j) ==
    IF thr[j].kind = "url" THEN thr[j].pc \notin {"start", "download"}
    ELSE thr[j].pc \notin {"start", "probe", "transcribe"}

\* C9 (as claimed): a request with a malformed parameter is rejected before
\* any download or transcription of its run begins: no job has an
\* unsupported url, and no run whose min_duration, max_duration or max_clips
\* is not a number gets as far as downloading or transcribing.
C9_MalformedRejectedBeforeWork ==
    \A j \in JobIds :
        /\ thr[j].kind = "url" => UrlSupported(jobs[j].source)
        /\ thr[j].options.bad # {} => ~WorkBegun(j)

\* the output paths job j has written so far
WrittenPaths(j) == { JobOutputPath(j, thr[j].attempts[k].i) : k \in 1..Len(thr[j].attempts) }

\* C10 (as claimed): no two runs ever write the same output path.
C10_NoSharedOutputPath ==
    \A j1, j2 \in JobIds :
        j1 # j2 => WrittenPaths(j1) \cap WrittenPaths(j2) = {}

\* the run of job j has ended: its worker has nothing left to do
RunEnded(j) == thr[j].pc = "done"

\* C11 (as claimed): when a run has ended, on whatever exit path, none of its
\* temporary working files (source media, extracted audio, head sample)
\* remains.
C11_NoTemporaryFileAfterRun ==
    \A j \in JobIds : RunEnded(j) => thr[j].tmp = {}

\* C12 (as claimed): in every run, URL or upload, the transcriber is given
\* the head sample when the source lasts longer than 1800 s and the full
\* media otherwise, whatever the sample extraction did.
C12_LongSourceTranscribedFromSample ==
    \A j \in JobIds :
        thr[j].pc = "transcribe" => (thr[j].input = "sample" <=> thr[j].long)

\* the sidecars the claim has job j write: one for each window whose render
\* succeeded, with the fields of that window
ClaimedSidecars(j) ==
    LET oks == SelectSeq(thr[j].attempts, LAMBDA a : a.ok)
    IN  [k \in 1..Len(oks) |->
            Sidecar(jobs[j].source, oks[k].i, thr[j].windows[oks[k].i])]

\* C13 (as claimed): in a URL run and in an upload run, the metadata sidecars
\* written are exactly one for every successfully rendered clip, with source,
\* start_time, end_time, duration, transcript and reason of that clip's
\* window, and none for a window whose render failed.
C13_OneSidecarPerRenderedClip ==
    \A j \in JobIds : thr[j].metadata = ClaimedSidecars(j)

\* C16 (as claimed): terminal job states are absorbing: once a job's status
\* is 'completed' or 'failed', no later step of its worker, the cleanup of
\* the uploaded file and the exception handler included, changes it.
C16_TerminalStatusIsAbsorbing ==
    [][\A j \in JobIds : TerminalStatus(j) => jobs'[j].status = jobs[j].status]_vars

=============================================================================
